---- MODULE Spec2Model ----
(***************************************************************************)
(* AI Coloring Studio: the payment-verification handler                    *)
(* (app/api/verify-payment/route.ts), the generation quota handler         *)
(* (app/api/generate-image/route.ts), the sign-up page's profile writes    *)
(* (app/signup/page.tsx) and the Firestore user documents they share.      *)
(*                                                                         *)
(* Every await of a handler is a point where other requests interleave, so *)
(* each handler is cut into one action per store or gateway round trip.    *)
(***************************************************************************)
EXTENDS Integers, Sequences, FiniteSets, Bags, TLC

----------------------------------------------------------------------------
(* Bounds of the model *)

\* how many operations can be in flight at once
MaxInFlight == 2
\* how many operations are started in one behaviour
MaxRequests == 3
\* the server timestamps are 1..MaxClock
MaxClock == 2
\* how many instances of the firebaseAdmin module a server process loads
MaxInstances == 2
\* how many times the generation form dispatches its action
MaxDispatches == 2

\* values of FieldValue.serverTimestamp()
Times == 1..MaxClock

----------------------------------------------------------------------------
(* Values *)

\* a JSON field that is absent from the body (undefined in the handler)
Undefined == "<undefined>"

UserIds == {"u1", "u2"}
OrderIds == {"o1", "o2"}
PaymentIds == {"p1"}
Prompts == {"ab", "cat"}
ImageUrls == {"https://img/1", "https://img/2"}

\* process.env.RAZORPAY_KEY_SECRET when it is configured
Secret == "s3cr3t"

\* const FREE_GENERATION_LIMIT = 5;
FREE_GENERATION_LIMIT == 5

\* generationCount values a free user's record has at the start: a fresh
\* profile, and one that has used four of its five free generations
InitCounts == {0, 4}

\* JavaScript's null
Null == "<null>"

\* JavaScript's !x for the string-or-undefined values of a request body
Falsy(x) == x = Undefined \/ x = ""

\* String.prototype.includes
Includes(s, w) ==
    \E i \in 1..(Len(s) - Len(w) + 1) : SubSeq(s, i, i + Len(w) - 1) = w

----------------------------------------------------------------------------
(* crypto.createHmac('sha256', key).update(msg).digest('hex'), idealised   *)
(* as collision free: the digest determines the key and the message.       *)

HmacSha256Hex(key, msg) == "hmac[" \o key \o "](" \o msg \o ")"

\* `${razorpay_order_id}|${razorpay_payment_id}`
SignedMessage(orderId, paymentId) == orderId \o "|" \o paymentId

ValidSignatures ==
    { HmacSha256Hex(Secret, SignedMessage(o, p)) : o \in OrderIds, p \in PaymentIds }

Signatures == ValidSignatures \cup {"deadbeef"}

----------------------------------------------------------------------------
(* State *)

VARIABLES
    users,          \* Firestore collection 'users': userId -> document
    images,         \* subcollections users/{uid}/generatedImages: userId -> records
    auth,           \* Firebase Authentication: userId -> provider of the account
    reqs,           \* the operations in flight: a bag of their local variables
    started,        \* operations started so far
    lastResp,       \* the response (or toast) most recently given to a client
    peakGen,        \* history: most generation requests of a user in flight at once
    expectedCount,  \* history: starting generationCount + generations answered 200
    charged,        \* history: increments generation requests applied to the count
    quiet,          \* history: no payment or sign-up has written the user's record
    verifyIn,       \* Signature Verifier alone: the secret and the body it is given
    verified,       \* Signature Verifier alone: its result on verifyIn
    deployment,     \* firebaseAdmin alone: the variant deployed and its environment
    adminApps,      \* firebaseAdmin alone: admin.apps.length
    modules,        \* firebaseAdmin alone: module-level variables of each instance
    initialized,    \* history: calls of admin.initializeApp that succeeded
    lastCall,       \* history: the last call of the module and what it did
    user,           \* generation form: useFirebase().user, or the auth state loading
    userProfile,    \* generation form: the profile last seen by onSnapshot
    isProfileLoading, \* generation form
    state,          \* generation form: the FormState of useActionState
    isPending,      \* generation form: the transition of the dispatched action
    showUpgradeModal, \* generation form
    route,          \* generation form: where the router is
    dispatched,     \* history: generate actions the form has dispatched
    call,           \* one generation and what it finds: its input, the record, the
                    \* gateway's answer, the store's faults
    byRoute,        \* what POST of generate-image does on it, run alone
    byAction,       \* what generateImageAction of src/app/actions.ts does on it
    byProxy         \* what generateImageAction of aicolouringstudio-main does on it

\* the handlers and the store
handlerVars == <<users, images, auth, reqs, started, lastResp,
                 peakGen, expectedCount, charged, quiet>>

\* the Signature Verifier taken alone
verifierVars == <<verifyIn, verified>>

\* the firebaseAdmin module taken alone
adminVars == <<deployment, adminApps, modules, initialized, lastCall>>

\* the generation form of the browser taken alone
formVars == <<user, userProfile, isProfileLoading, state, isPending,
              showUpgradeModal, route, dispatched>>

\* one generation run through the route and through the server actions
entryVars == <<call, byRoute, byAction, byProxy>>

\* what no step of a handler touches
besideHandlers == <<verifierVars, adminVars, formVars, entryVars>>

\* what no step of the Signature Verifier touches
besideVerifier == <<handlerVars, adminVars, formVars, entryVars>>

\* what no step of the firebaseAdmin module touches
besideAdmin == <<handlerVars, verifierVars, formVars, entryVars>>

\* what no step of the generation form touches
besideForm == <<handlerVars, verifierVars, adminVars, entryVars>>

\* what no run of an entry point touches
besideEntries == <<handlerVars, verifierVars, adminVars, formVars>>

vars == <<handlerVars, besideHandlers>>

\* a path of 'users' with no document
NoDoc == [exists |-> FALSE, isSubscribed |-> FALSE, generationCount |-> 0,
          razorpayOrderId |-> Undefined, razorpayPaymentId |-> Undefined,
          upgradedAt |-> 0]

\* the profile both sign-up paths write: generationCount: 0, isSubscribed: false
NewProfile == [NoDoc EXCEPT !.exists = TRUE]

\* the local variables of an operation that has set none yet
Locals == [kind |-> "idle", pc |-> "idle", userId |-> Undefined,
         orderId |-> Undefined, paymentId |-> Undefined, signature |-> Undefined,
         prompt |-> Undefined, isPro |-> FALSE, generationCount |-> 0,
         imageUrl |-> Undefined]

NoResp == [kind |-> "none", userId |-> Undefined, status |-> 0, success |-> FALSE,
           message |-> "", imageUrl |-> Undefined, replay |-> FALSE]

\* NextResponse.json({ success: false, message }, { status })
Response(kind, userId, status, message) ==
    [kind |-> kind, userId |-> userId, status |-> status, success |-> FALSE,
     message |-> message, imageUrl |-> Undefined, replay |-> FALSE]

\* toast({ title }) of the sign-up page
Toast(kind, userId, title) == Response(kind, userId, 0, title)

\* NextResponse.json({ success: true, message, ... }): no status is given, so it
\* is 200; generate-image adds image: { imageUrl }
SuccessResponse(kind, userId, message, imageUrl) ==
    [Response(kind, userId, 200, message) EXCEPT !.success = TRUE,
                                                 !.imageUrl = imageUrl]

\* the operations in flight, as a bag: invocations have no identity beyond
\* their local variables
One(r) == SetToBag({r})
InFlightNow == BagToSet(reqs)
Starts(r) == reqs' = reqs (+) One(r)
Ends(r) == reqs' = reqs (-) One(r)
Becomes(r, r2) == reqs' = (reqs (-) One(r)) (+) One(r2)

----------------------------------------------------------------------------
(* Firestore operations on one document *)

\* FieldValue.serverTimestamp(): the store's time when it applies the write,
\* not before the time of an earlier write to the document
ServerTimestamps(doc) == { now \in Times : now >= doc.upgradedAt }

\* mutant: set(fields, {merge: true}) in place of update: a missing document is
\* no error
DocUpdateFails_SetMerge(doc, fault) == fault

\* DocumentReference.update(fields): fails with NOT_FOUND on a missing document
DocUpdateFails(doc, fault) == fault \/ ~doc.exists

StoreErrorMessage(doc, fault) ==
    IF fault THEN "14 UNAVAILABLE" ELSE "5 NOT_FOUND: No document to update"

\* mutant: a payment id the document already holds is kept
UpgradeFields_PaymentIdKept(doc, orderId, paymentId, now) ==
    [doc EXCEPT !.isSubscribed = TRUE,
                !.razorpayOrderId = orderId,
                !.razorpayPaymentId = IF @ = Undefined THEN paymentId ELSE @,
                !.upgradedAt = now]

\* mutant: userRef.set({...}) in place of update: the other fields are dropped
UpgradeFields_SetWithoutMerge(doc, orderId, paymentId, now) ==
    [exists |-> TRUE, isSubscribed |-> TRUE, generationCount |-> 0,
     razorpayOrderId |-> orderId, razorpayPaymentId |-> paymentId,
     upgradedAt |-> now]

\* userRef.update({isSubscribed: true, razorpayOrderId, razorpayPaymentId,
\*                 upgradedAt: serverTimestamp()})
UpgradeFields(doc, orderId, paymentId, now) ==
    [doc EXCEPT !.isSubscribed = TRUE,
                !.razorpayOrderId = orderId,
                !.razorpayPaymentId = paymentId,
                !.upgradedAt = now]

\* mutant: read-modify-write in the handler, generationCount: generationCount + 1
IncrementGenerationCount_ReadModifyWrite(doc, readCount) ==
    [doc EXCEPT !.generationCount = readCount + 1]

\* mutant: userDocRef.set({generationCount: FieldValue.increment(1)}) in place of
\* update: the document is replaced and holds the count alone
IncrementGenerationCount_SetOverwrite(doc, readCount) ==
    [NewProfile EXCEPT !.generationCount = doc.generationCount + 1]

\* userDocRef.update({generationCount: FieldValue.increment(1)}): the store adds
\* to the value the document holds when the write is applied
IncrementGenerationCount(doc, readCount) ==
    [doc EXCEPT !.generationCount = doc.generationCount + 1]

\* setDoc(userRef, {..., generationCount: 0, isSubscribed: false}, {merge: true})
SetDocMerge(doc) ==
    [doc EXCEPT !.exists = TRUE, !.generationCount = 0, !.isSubscribed = FALSE]

\* setDoc(userRef, {..., generationCount: 0, isSubscribed: false}): replaces the
\* whole document
SetDocOverwrite(doc) == NewProfile

----------------------------------------------------------------------------
(* Requests to POST /api/verify-payment.  A request carries, besides its   *)
(* JSON body, what the invocation that serves it finds around it: the      *)
(* revision of the route that is deployed (the file holds two), the number *)
(* of Firebase Admin apps of its module instance, and the secret in its    *)
(* environment.                                                            *)

VerifyBody(o, p, g, u) ==
    [razorpay_order_id |-> o, razorpay_payment_id |-> p,
     razorpay_signature |-> g, userId |-> u]

CompleteBodies ==
    { VerifyBody(o, p, g, u) :
        o \in OrderIds, p \in PaymentIds, g \in Signatures, u \in UserIds }

\* bodies with one field left out, and the empty body
IncompleteBodies ==
    { VerifyBody(Undefined, "p1", "deadbeef", "u1"),
      VerifyBody("o1", Undefined, "deadbeef", "u1"),
      VerifyBody("o1", "p1", Undefined, "u1"),
      VerifyBody("o1", "p1", HmacSha256Hex(Secret, SignedMessage("o1", "p1")), Undefined),
      VerifyBody(Undefined, Undefined, Undefined, Undefined) }

VerifyRequests ==
    { [rev |-> r, apps |-> a, secret |-> k, parsable |-> TRUE, body |-> b] :
        r \in {1, 2}, a \in {0, 1}, k \in {Undefined, Secret},
        b \in CompleteBodies \cup IncompleteBodies }
    \cup
    { [rev |-> r, apps |-> a, secret |-> Secret, parsable |-> FALSE,
       body |-> VerifyBody(Undefined, Undefined, Undefined, Undefined)] :
        r \in {1, 2}, a \in {0, 1} }

\* getFirebaseAdmin(): throws when admin.apps.length === 0
AdminNotInitialized ==
    "CRITICAL: Firebase Admin not initialized. The default Firebase app does not exist."

\* await request.json() on a body that is not JSON
BodyParseError == "Unexpected token in JSON"

\* if (!razorpay_order_id || !razorpay_payment_id || !razorpay_signature || !userId)
MissingRequiredFields(body) ==
    \/ Falsy(body.razorpay_order_id)
    \/ Falsy(body.razorpay_payment_id)
    \/ Falsy(body.razorpay_signature)
    \/ Falsy(body.userId)

\* mutant: the comparison of the signatures is left out
SignatureMismatch_Skipped(secret, body) == FALSE

\* mutant: only the first eight characters of the signatures are compared
SignatureMismatch_PrefixCompared(secret, body) ==
    SubSeq(HmacSha256Hex(secret,
                         SignedMessage(body.razorpay_order_id, body.razorpay_payment_id)),
           1, 8)
        # SubSeq(body.razorpay_signature, 1, 8)

\* generatedSignature !== razorpay_signature
SignatureMismatch(secret, body) ==
    HmacSha256Hex(secret, SignedMessage(body.razorpay_order_id, body.razorpay_payment_id))
        # body.razorpay_signature

Pass == [status |-> 0, message |-> "pass"]
Reject(status, message) == [status |-> status, message |-> message]

\* the catch block of verify-payment:
\* { success: false, message: error.message || 'Payment verification failed' }, 500
VerifyCatch(message) ==
    Reject(500, IF message = "" THEN "Payment verification failed" ELSE message)

\* mutant: a signature mismatch is logged but the handler goes on
VerifyBodyChecks_MismatchNotReturned(req) ==
    IF ~req.parsable THEN VerifyCatch(BodyParseError)
    ELSE IF MissingRequiredFields(req.body) THEN Reject(400, "Missing required fields")
    ELSE IF Falsy(req.secret) THEN Reject(500, "Server configuration error")
    ELSE Pass

\* mutant: the secret is looked up before the fields are validated
VerifyBodyChecks_SecretFirst(req) ==
    IF ~req.parsable THEN VerifyCatch(BodyParseError)
    ELSE IF Falsy(req.secret) THEN Reject(500, "Server configuration error")
    ELSE IF MissingRequiredFields(req.body) THEN Reject(400, "Missing required fields")
    ELSE IF SignatureMismatch(req.secret, req.body)
         THEN Reject(400, "Invalid payment signature")
    ELSE Pass

\* mutant: { status: 400 } is left out of the signature-mismatch response
VerifyBodyChecks_MismatchStatusDropped(req) ==
    IF ~req.parsable THEN VerifyCatch(BodyParseError)
    ELSE IF MissingRequiredFields(req.body) THEN Reject(400, "Missing required fields")
    ELSE IF Falsy(req.secret) THEN Reject(500, "Server configuration error")
    ELSE IF SignatureMismatch(req.secret, req.body)
         THEN Reject(200, "Invalid payment signature")
    ELSE Pass

\* the checks on the body, in the order both revisions make them
VerifyBodyChecks(req) ==
    IF ~req.parsable THEN VerifyCatch(BodyParseError)
    ELSE IF MissingRequiredFields(req.body) THEN Reject(400, "Missing required fields")
    ELSE IF Falsy(req.secret) THEN Reject(500, "Server configuration error")
    ELSE IF SignatureMismatch(req.secret, req.body)
         THEN Reject(400, "Invalid payment signature")
    ELSE Pass

\* mutant: the later revision too obtains Firebase Admin only after the
\* signature check
VerifyBeforeUpdate_AdminAfterChecks(req) ==
    IF VerifyBodyChecks(req) # Pass THEN VerifyBodyChecks(req)
    ELSE IF req.apps = 0 THEN VerifyCatch(AdminNotInitialized)
    ELSE Pass

\* Everything POST does before `await userRef.update(...)`: revision 1 (lines
\* 10-87) obtains Firebase Admin after the signature check, revision 2 (lines
\* 97-203) before it reads the body.
VerifyBeforeUpdate(req) ==
    IF req.rev = 2
    THEN IF req.apps = 0 THEN VerifyCatch(AdminNotInitialized)
         ELSE VerifyBodyChecks(req)
    ELSE IF VerifyBodyChecks(req) # Pass THEN VerifyBodyChecks(req)
         ELSE IF req.apps = 0 THEN VerifyCatch(AdminNotInitialized)
         ELSE Pass

\* a new operation can start
CanStart == started < MaxRequests /\ BagCardinality(reqs) < MaxInFlight

\* POST, up to its only await on the store
VerifyPaymentReceive(req) ==
    /\ CanStart
    /\ started' = started + 1
    /\ LET out == VerifyBeforeUpdate(req) IN
       IF out = Pass
       THEN /\ Starts([Locals EXCEPT !.kind = "verify", !.pc = "Updating",
                                     !.userId = req.body.userId,
                                     !.orderId = req.body.razorpay_order_id,
                                     !.paymentId = req.body.razorpay_payment_id,
                                     !.signature = req.body.razorpay_signature])
            /\ UNCHANGED lastResp
       ELSE /\ lastResp' = Response("verify", req.body.userId, out.status, out.message)
            /\ UNCHANGED reqs
    /\ UNCHANGED besideHandlers
    /\ UNCHANGED <<users, images, auth, peakGen, expectedCount, charged, quiet>>

\* await userRef.update({...}) and the response that follows it
VerifyPaymentUpdate(r, fault, now) ==
    /\ r.kind = "verify" /\ r.pc = "Updating"
    /\ LET u == r.userId
           doc == users[u] IN
       IF DocUpdateFails(doc, fault)
       THEN /\ lastResp' = Response("verify", u, 500,
                                    VerifyCatch(StoreErrorMessage(doc, fault)).message)
            /\ UNCHANGED <<users, quiet>>
       ELSE /\ now \in ServerTimestamps(doc)
            /\ users' = [users EXCEPT ![u] =
                    UpgradeFields(doc, r.orderId, r.paymentId, now)]
            /\ quiet' = [quiet EXCEPT ![u] = FALSE]
            /\ lastResp' =
                 [SuccessResponse("verify", u,
                                  "Payment verified and user upgraded to Pro!", Undefined)
                    EXCEPT !.replay = /\ doc.isSubscribed
                                      /\ doc.razorpayOrderId = r.orderId
                                      /\ doc.razorpayPaymentId = r.paymentId]
    /\ Ends(r)
    /\ UNCHANGED besideHandlers
    /\ UNCHANGED <<images, auth, started, peakGen, expectedCount, charged>>

\* The payments of one user, each an order with its own payment id, as the
\* checkout hands them to the handler
Payments == { <<"o1", "p1">>, <<"o2", "p2">> }

\* the requests of a user who paid more than once: the bodies of the checkout,
\* and bodies put together from two payments, under either revision
PaymentRequests ==
    { [rev |-> r, apps |-> 1, secret |-> Secret, parsable |-> TRUE,
       body |-> VerifyBody(pay[1], pay[2],
                           HmacSha256Hex(Secret, SignedMessage(pay[1], pay[2])), "u1")] :
        r \in {1, 2}, pay \in Payments }
    \cup
    { [rev |-> r, apps |-> 1, secret |-> Secret, parsable |-> TRUE,
       body |-> VerifyBody(ab[1][1], ab[2][2],
                           HmacSha256Hex(Secret, SignedMessage(ab[1][1], ab[1][2])),
                           "u1")] :
        r \in {1, 2}, ab \in { x \in Payments \X Payments : x[1] # x[2] } }

----------------------------------------------------------------------------
(* Requests to POST /api/generate-image *)

GenerateRequests ==
    { [apps |-> a, parsable |-> TRUE, prompt |-> q, userId |-> u] :
        a \in {0, 1}, q \in Prompts \cup {Undefined}, u \in UserIds \cup {Undefined, ""} }
    \cup
    { [apps |-> a, parsable |-> FALSE, prompt |-> Undefined, userId |-> Undefined] :
        a \in {0, 1} }

\* schema.safeParse(body): prompt: z.string().min(3), userId: z.string()
PromptErrors(prompt) ==
    IF prompt = Undefined THEN <<"Required">>
    ELSE IF Len(prompt) < 3 THEN <<"String must contain at least 3 character(s)">>
    ELSE <<>>

SchemaFails(req) == PromptErrors(req.prompt) # <<>> \/ req.userId = Undefined

\* validatedFields.error.flatten().fieldErrors.prompt?.join(', ') ?? 'Invalid input.'
SchemaMessage(req) ==
    IF PromptErrors(req.prompt) # <<>> THEN PromptErrors(req.prompt)[1]
    ELSE "Invalid input."

\* db.collection('users').doc(userId) throws on an empty path
EmptyPathError == "Value for argument \"documentPath\" must be a non-empty string."

\* the catch block: `<cross mark> ${error.message || 'Something went wrong. Please
\* try again.'}`, the cross mark written X
Caught(message) ==
    "X " \o (IF message = "" THEN "Something went wrong. Please try again." ELSE message)

\* POST of generate-image up to `await userDocRef.get()`
GenerateBeforeRead(req) ==
    IF req.apps = 0 THEN Reject(500, Caught(AdminNotInitialized))
    ELSE IF ~req.parsable THEN Reject(500, Caught(BodyParseError))
    ELSE IF SchemaFails(req) THEN Reject(400, SchemaMessage(req))
    ELSE IF req.userId = "" THEN Reject(500, Caught(EmptyPathError))
    ELSE Pass

\* how many generation requests of user u are in flight in the bag rq
InFlight(rq, u) ==
    BagCardinality([r \in { x \in BagToSet(rq) : x.kind = "generate" /\ x.userId = u }
                      |-> CopiesIn(r, rq)])

Max(a, b) == IF a >= b THEN a ELSE b

\* State Validating: parse and validate the body
GenerateValidate(req) ==
    /\ CanStart
    /\ started' = started + 1
    /\ LET out == GenerateBeforeRead(req) IN
       IF out = Pass
       THEN /\ Starts([Locals EXCEPT !.kind = "generate", !.pc = "QuotaChecking",
                                     !.userId = req.userId, !.prompt = req.prompt])
            /\ peakGen' = [peakGen EXCEPT ![req.userId] =
                    Max(@, InFlight(reqs', req.userId))]
            /\ UNCHANGED lastResp
       ELSE /\ lastResp' = Response("generate", req.userId, out.status, out.message)
            /\ UNCHANGED <<reqs, peakGen>>
    /\ UNCHANGED besideHandlers
    /\ UNCHANGED <<users, images, auth, expectedCount, charged, quiet>>

\* const isPro = userData?.isSubscribed === true;
IsPro(doc) == doc.isSubscribed = TRUE

\* mutant: the count is read but the limit is not enforced
LimitReached_NotEnforced(isPro, generationCount) == FALSE

\* mutant: the limit applies to Pro users too
LimitReached_IgnoresPro(isPro, generationCount) ==
    generationCount >= FREE_GENERATION_LIMIT

\* mutant: > in place of >=
LimitReached_OffByOne(isPro, generationCount) ==
    ~isPro /\ generationCount > FREE_GENERATION_LIMIT

\* if (!isPro && generationCount >= FREE_GENERATION_LIMIT)
LimitReached(isPro, generationCount) ==
    ~isPro /\ generationCount >= FREE_GENERATION_LIMIT

\* mutant: the existence check is left out; a missing document reads as
\* userData undefined
ProfileMissing_NotChecked(doc) == FALSE

\* if (!userDoc.exists)
ProfileMissing(doc) == ~doc.exists

\* State QuotaChecking: await userDocRef.get(), the 404 and the 403
GenerateReadUser(r, fault) ==
    /\ r.kind = "generate" /\ r.pc = "QuotaChecking"
    /\ LET u == r.userId
           doc == users[u] IN
       IF fault
       THEN /\ lastResp' = Response("generate", u, 500, Caught("14 UNAVAILABLE"))
            /\ Ends(r)
       ELSE IF ProfileMissing(doc)
       THEN /\ lastResp' = Response("generate", u, 404, "User profile not found.")
            /\ Ends(r)
       ELSE IF LimitReached(IsPro(doc), doc.generationCount)
       THEN /\ lastResp' = Response("generate", u, 403,
                               "Free generation limit reached. Please upgrade to Pro.")
            /\ Ends(r)
       ELSE /\ Becomes(r, [r EXCEPT !.pc = "Generating",
                                    !.isPro = IsPro(doc),
                                    !.generationCount = doc.generationCount])
            /\ UNCHANGED lastResp
    /\ UNCHANGED besideHandlers
    /\ UNCHANGED <<users, images, auth, started, peakGen, expectedCount, charged, quiet>>

\* what the webhook call can end in
GatewayOutcomes == ImageUrls \cup {"timeout", "invalid", "unavailable"}

\* mutant: the ECONNABORTED branch is left out
GatewayError_TimeoutNotTold(outcome) ==
    "Failed to generate coloring page. The AI service may be temporarily unavailable."

\* generateColoringPageFromPromptFlow: the message of the error it throws
GatewayError(outcome) ==
    IF outcome = "timeout"
    THEN "The image generation service took too long to respond. Please try again in a moment."
    ELSE "Failed to generate coloring page. The AI service may be temporarily unavailable."

\* mutant: the flow's error is swallowed and the handler goes on with no imageUrl
GenerateGateway_ErrorSwallowed(r, outcome) ==
    /\ r.kind = "generate" /\ r.pc = "Generating"
    /\ Becomes(r, [r EXCEPT !.pc = "Persisting",
                            !.imageUrl = IF outcome \in ImageUrls THEN outcome
                                         ELSE Undefined])
    /\ UNCHANGED besideHandlers
    /\ UNCHANGED <<users, images, auth, started, lastResp, peakGen, expectedCount,
                   charged, quiet>>

\* mutant: axios.post without { timeout: 30000 }: a gateway that does not answer
\* leaves the handler awaiting
GenerateGateway_NoTimeout(r, outcome) ==
    /\ r.kind = "generate" /\ r.pc = "Generating"
    /\ IF outcome \in ImageUrls
       THEN /\ Becomes(r, [r EXCEPT !.pc = "Persisting", !.imageUrl = outcome])
            /\ UNCHANGED lastResp
       ELSE IF outcome = "timeout"
       THEN /\ Becomes(r, [r EXCEPT !.pc = "Awaiting"])
            /\ UNCHANGED lastResp
       ELSE /\ lastResp' = Response("generate", r.userId, 500,
                                    Caught(GatewayError(outcome)))
            /\ Ends(r)
    /\ UNCHANGED besideHandlers
    /\ UNCHANGED <<users, images, auth, started, peakGen, expectedCount, charged, quiet>>

\* State Generating: await generateColoringPageFromPrompt({ prompt, userId })
GenerateGateway(r, outcome) ==
    /\ r.kind = "generate" /\ r.pc = "Generating"
    /\ IF outcome \in ImageUrls
       THEN /\ Becomes(r, [r EXCEPT !.pc = "Persisting", !.imageUrl = outcome])
            /\ UNCHANGED lastResp
       ELSE /\ lastResp' = Response("generate", r.userId, 500,
                                    Caught(GatewayError(outcome)))
            /\ Ends(r)
    /\ UNCHANGED besideHandlers
    /\ UNCHANGED <<users, images, auth, started, peakGen, expectedCount, charged, quiet>>

\* return NextResponse.json({success: true, message: '<check mark> Coloring page
\* ready!', ...})
GenerateOk(r) ==
    /\ lastResp' = SuccessResponse("generate", r.userId, "Coloring page ready!",
                                   r.imageUrl)
    /\ expectedCount' = [expectedCount EXCEPT ![r.userId] = @ + 1]
    /\ Ends(r)

\* mutant: the record is built but the add is left out
AddImageRecord_NotAdded(records, r) == records

\* mutant: the record is added with the prompt in place of result.imageUrl
AddImageRecord_PromptAsUrl(records, r) ==
    Append(records, [imageUrl |-> r.prompt, prompt |-> r.prompt])

\* db.collection(`users/${userId}/generatedImages`).add({imageUrl: result.imageUrl,
\* prompt, createdAt, userId})
AddImageRecord(records, r) ==
    Append(records, [imageUrl |-> r.imageUrl, prompt |-> r.prompt])

\* State Persisting: await db.collection(`users/${userId}/generatedImages`).add(...)
\* and, for a Pro user, the response
GeneratePersist(r, fault) ==
    /\ r.kind = "generate" /\ r.pc = "Persisting"
    /\ LET u == r.userId IN
       IF fault
       THEN /\ lastResp' = Response("generate", u, 500, Caught("14 UNAVAILABLE"))
            /\ Ends(r)
            /\ UNCHANGED <<images, expectedCount>>
       ELSE /\ images' = [images EXCEPT ![u] = AddImageRecord(@, r)]
            /\ IF r.isPro
               THEN GenerateOk(r)
               ELSE /\ Becomes(r, [r EXCEPT !.pc = "Incrementing"])
                    /\ UNCHANGED <<lastResp, expectedCount>>
    /\ UNCHANGED besideHandlers
    /\ UNCHANGED <<users, auth, started, peakGen, charged, quiet>>

\* mutant: a store error of the increment is reported after the increment was
\* applied
GenerateIncrement_AppliedThenFailed(r, fault) ==
    /\ r.kind = "generate" /\ r.pc = "Incrementing"
    /\ LET u == r.userId
           doc == users[u] IN
       IF doc.exists /\ fault
       THEN /\ users' = [users EXCEPT ![u] =
                    IncrementGenerationCount(doc, r.generationCount)]
            /\ lastResp' = Response("generate", u, 500,
                                    Caught(StoreErrorMessage(doc, fault)))
            /\ Ends(r)
            /\ UNCHANGED <<expectedCount, charged>>
       ELSE IF DocUpdateFails(doc, fault)
       THEN /\ lastResp' = Response("generate", u, 500,
                                    Caught(StoreErrorMessage(doc, fault)))
            /\ Ends(r)
            /\ UNCHANGED <<users, expectedCount, charged>>
       ELSE /\ users' = [users EXCEPT ![u] =
                    IncrementGenerationCount(doc, r.generationCount)]
            /\ charged' = [charged EXCEPT ![u] = @ + 1]
            /\ GenerateOk(r)
    /\ UNCHANGED besideHandlers
    /\ UNCHANGED <<images, auth, started, peakGen, quiet>>

\* if (!isPro) await userDocRef.update({generationCount: FieldValue.increment(1)})
\* and the response
GenerateIncrement(r, fault) ==
    /\ r.kind = "generate" /\ r.pc = "Incrementing"
    /\ LET u == r.userId
           doc == users[u] IN
       IF DocUpdateFails(doc, fault)
       THEN /\ lastResp' = Response("generate", u, 500,
                                    Caught(StoreErrorMessage(doc, fault)))
            /\ Ends(r)
            /\ UNCHANGED <<users, expectedCount, charged>>
       ELSE /\ users' = [users EXCEPT ![u] =
                    IncrementGenerationCount(doc, r.generationCount)]
            /\ charged' = [charged EXCEPT ![u] = @ + 1]
            /\ GenerateOk(r)
    /\ UNCHANGED besideHandlers
    /\ UNCHANGED <<images, auth, started, peakGen, quiet>>

----------------------------------------------------------------------------
(* The sign-up page.  Both paths first obtain a Firebase Authentication     *)
(* user and then write its profile from the browser.  An e-mail sign-up     *)
(* always creates a new account (createUserWithEmailAndPassword rejects an  *)
(* address in use); signInWithPopup also signs in the Google account that   *)
(* exists already.                                                          *)

\* handleGoogleSignIn: await signInWithPopup(auth, provider)
GoogleSignInPopup(u) ==
    /\ CanStart
    /\ auth[u] \in {"none", "google"}
    /\ started' = started + 1
    /\ auth' = [auth EXCEPT ![u] = "google"]
    /\ Starts([Locals EXCEPT !.kind = "google", !.pc = "SetDoc", !.userId = u])
    /\ UNCHANGED besideHandlers
    /\ UNCHANGED <<users, images, lastResp, peakGen, expectedCount, charged, quiet>>

\* handleGoogleSignIn: await setDoc(userRef, {...}, { merge: true }) and the toast
GoogleSignInSetDoc(r, fault) ==
    /\ r.kind = "google" /\ r.pc = "SetDoc"
    /\ LET u == r.userId IN
       IF fault
       THEN /\ lastResp' = Toast("google", u, "Google Sign-Up Failed")
            /\ UNCHANGED <<users, quiet>>
       ELSE /\ users' = [users EXCEPT ![u] = SetDocMerge(@)]
            /\ quiet' = [quiet EXCEPT ![u] = FALSE]
            /\ lastResp' = Toast("google", u, "Successfully signed up!")
    /\ Ends(r)
    /\ UNCHANGED besideHandlers
    /\ UNCHANGED <<images, auth, started, peakGen, expectedCount, charged>>

\* performSignUp: await createUserWithEmailAndPassword(auth, email, password)
EmailSignUpCreate(u) ==
    /\ CanStart
    /\ auth[u] = "none"
    /\ started' = started + 1
    /\ auth' = [auth EXCEPT ![u] = "password"]
    /\ Starts([Locals EXCEPT !.kind = "email", !.pc = "SetDoc", !.userId = u])
    /\ UNCHANGED besideHandlers
    /\ UNCHANGED <<users, images, lastResp, peakGen, expectedCount, charged, quiet>>

\* performSignUp: await setDoc(userRef, {...}) and the toast
EmailSignUpSetDoc(r, fault) ==
    /\ r.kind = "email" /\ r.pc = "SetDoc"
    /\ LET u == r.userId IN
       IF fault
       THEN /\ lastResp' = Toast("email", u, "Sign-up Failed")
            /\ UNCHANGED <<users, quiet>>
       ELSE /\ users' = [users EXCEPT ![u] = SetDocOverwrite(@)]
            /\ quiet' = [quiet EXCEPT ![u] = FALSE]
            /\ lastResp' = Toast("email", u, "Account created successfully!")
    /\ Ends(r)
    /\ UNCHANGED besideHandlers
    /\ UNCHANGED <<images, auth, started, peakGen, expectedCount, charged>>

----------------------------------------------------------------------------
(* The Signature Verifier taken alone: the lines of verify-payment that     *)
(* recompute the signature and compare it, given any configured secret, any *)
(* order id and payment id, and any submitted signature.                    *)

\* values of process.env.RAZORPAY_KEY_SECRET over deployments
Secrets == {Secret, "k2"}

\* what the payment gateway signs with some deployment's secret
GatewaySignatures ==
    { HmacSha256Hex(k, SignedMessage(o, p)) :
        k \in Secrets, o \in OrderIds, p \in PaymentIds }

\* the characters a tampering puts in the place of one of the signature's
TamperChars == {"0", "f"}

\* the string s with its i-th character replaced by c
ReplaceChar(s, i, c) == SubSeq(s, 1, i - 1) \o c \o SubSeq(s, i + 1, Len(s))

\* the signatures that differ from g in exactly one character
Tamperings(g) ==
    { ReplaceChar(g, i, c) : i \in 1..Len(g), c \in TamperChars } \ {g}

\* razorpay_signature is attacker-controlled: a gateway's signature, one of
\* them with a character replaced, or anything else
SubmittedSignatures ==
    GatewaySignatures \cup {"deadbeef"} \cup UNION { Tamperings(g) : g \in GatewaySignatures }

VerifierInputs ==
    { [secret |-> k, body |-> VerifyBody(o, p, g, "u1")] :
        k \in Secrets, o \in OrderIds, p \in PaymentIds, g \in SubmittedSignatures }

\* the verifier has been given nothing
VerifierIdle ==
    /\ verifyIn = [secret |-> Secret,
                   body |-> VerifyBody(Undefined, Undefined, Undefined, Undefined)]
    /\ verified = "unverified"

VerifierInit ==
    /\ verifyIn \in VerifierInputs
    /\ verified = "unverified"

\* const generatedSignature = crypto.createHmac(...).update(...).digest('hex');
\* if (generatedSignature !== razorpay_signature) ...: accepted when the handler
\* goes on past the comparison
RecomputeAndCompare ==
    /\ verified' = IF SignatureMismatch(verifyIn.secret, verifyIn.body)
                   THEN "rejected" ELSE "accepted"
    /\ UNCHANGED <<verifyIn, besideVerifier>>

----------------------------------------------------------------------------
(* lib/firebaseAdmin.ts taken alone.  The repository holds two variants:   *)
(* the one that initializes at module level and whose helpers only check   *)
(* (src/src/lib), and the one with the three-method fallback whose helpers *)
(* retry (aicolouringstudio-main/src/lib).  firebase-admin is one object   *)
(* per server process; the module can be instantiated more than once (one  *)
(* copy per route bundle), each instance with its own module-level         *)
(* variables.  All of it is synchronous, so calls do not interleave.       *)

Instances == 1..MaxInstances

Libs == {"moduleLevel", "fallback"}

\* process.env.FIREBASE_CONFIG: not set, JSON, or not JSON
FirebaseConfigs == {"missing", "valid", "malformed"}

\* the ways admin.initializeApp is called
InitMethods == {"applicationDefault", "FIREBASE_CONFIG", "noParameters", "hardcodedProject"}

\* whether each way would be accepted at the time of a call
Oks == [InitMethods -> BOOLEAN]

\* the module-level variables of an instance that has not been loaded
NotLoaded ==
    [status |-> "unloaded", isFirebaseInitialized |-> FALSE,
     initAttempted |-> FALSE, initSuccess |-> FALSE]

NoCall == [fn |-> "none", instance |-> 0, tried |-> <<>>, succeeded |-> "",
           outcome |-> "none", value |-> ""]

CallOf(fn, i, tried, succeeded, outcome, value) ==
    [fn |-> fn, instance |-> i, tried |-> tried, succeeded |-> succeeded,
     outcome |-> outcome, value |-> value]

\* admin.initializeApp(options): the SDK throws app/duplicate-app when the
\* default app exists, and creates it otherwise unless it rejects the options
InitializeAppWorks(apps, ok) == apps = 0 /\ ok

\* mutant: initializeFirebaseAdmin without its first if
AlreadyInitialized_NotChecked(apps, flag) == FALSE

\* if (admin.apps.length > 0 || isFirebaseInitialized) return;
AlreadyInitialized(apps, flag) == apps > 0 \/ flag

\* Method 1 is entered only if (process.env.FIREBASE_CONFIG)
MethodsInOrder(config) ==
    IF config = "missing" THEN <<"noParameters", "hardcodedProject">>
    ELSE <<"FIREBASE_CONFIG", "noParameters", "hardcodedProject">>

\* Method 1 parses FIREBASE_CONFIG before it calls admin.initializeApp
MethodWorks(m, apps, config, ok) ==
    /\ m = "FIREBASE_CONFIG" => config = "valid"
    /\ InitializeAppWorks(apps, ok[m])

\* what a call of a function of the fallback variant leaves
Left(apps, flag, tried, succeeded, threw) ==
    [apps |-> apps, flag |-> flag, tried |-> tried, succeeded |-> succeeded,
     threw |-> threw]

\* function initializeFirebaseAdmin(): void
InitializeFirebaseAdmin(apps, flag, config, ok) ==
    IF AlreadyInitialized(apps, flag) THEN Left(apps, flag, <<>>, "", FALSE)
    ELSE LET ms == MethodsInOrder(config)
             good == { k \in 1..Len(ms) : MethodWorks(ms[k], apps, config, ok) }
         IN  IF good # {}
             THEN LET k == CHOOSE k \in good : \A j \in good : k <= j
                  IN  Left(apps + 1, TRUE, SubSeq(ms, 1, k), ms[k], FALSE)
             \* the error of Method 3 reaches the outer catch
             ELSE IF apps > 0
             THEN Left(apps, TRUE, ms, "", FALSE)
             ELSE Left(apps, flag, ms, "", TRUE)

\* function ensureInitialized(): void
EnsureInitialized(apps, flag, config, ok) ==
    IF ~flag \/ apps = 0 THEN InitializeFirebaseAdmin(apps, flag, config, ok)
    ELSE Left(apps, flag, <<>>, "", FALSE)

\* mutant: the helpers of the module-level variant without their check
NoApps_NotChecked(apps) == FALSE

\* if (admin.apps.length === 0) throw new Error('CRITICAL: ...')
NoApps(apps) == apps = 0

\* The module is loaded: its top-level statements run.  In the module-level
\* variant a production build can drop them (shaken), and a failed
\* initialization throws out of the import.  The IIFE of the fallback variant
\* catches the error and leaves isFirebaseInitialized = false.
LoadModule(i, ok, shaken) ==
    /\ modules[i].status = "unloaded"
    /\ IF deployment.lib = "moduleLevel"
       THEN IF shaken \/ adminApps > 0
            THEN /\ modules' = [modules EXCEPT ![i].status = "loaded"]
                 /\ lastCall' = CallOf("load", i, <<>>, "", "returned", "")
                 /\ UNCHANGED <<adminApps, initialized>>
            ELSE IF InitializeAppWorks(adminApps, ok["applicationDefault"])
            THEN /\ modules' = [modules EXCEPT ![i].status = "loaded",
                                               ![i].initAttempted = TRUE,
                                               ![i].initSuccess = TRUE]
                 /\ adminApps' = adminApps + 1
                 /\ initialized' = initialized + 1
                 /\ lastCall' = CallOf("load", i, <<"applicationDefault">>,
                                       "applicationDefault", "returned", "")
            ELSE /\ modules' = [modules EXCEPT ![i].status = "failed",
                                               ![i].initAttempted = TRUE]
                 /\ lastCall' = CallOf("load", i, <<"applicationDefault">>, "",
                                       "threw", "")
                 /\ UNCHANGED <<adminApps, initialized>>
       ELSE LET e == InitializeFirebaseAdmin(adminApps, FALSE,
                                             deployment.FIREBASE_CONFIG, ok)
            IN  /\ modules' = [modules EXCEPT
                       ![i].status = "loaded",
                       ![i].isFirebaseInitialized = IF e.threw THEN FALSE ELSE e.flag]
                /\ adminApps' = e.apps
                /\ initialized' = initialized + (IF e.succeeded # "" THEN 1 ELSE 0)
                /\ lastCall' = CallOf("load", i, e.tried, e.succeeded, "returned",
                                      IF e.threw THEN "false" ELSE "true")
    /\ UNCHANGED <<deployment, besideAdmin>>

\* the three helpers.  Module-level variant: check, then return admin,
\* admin.firestore() or admin.auth().  Fallback variant: ensureInitialized(),
\* then the same return; admin.firestore() and admin.auth() throw when there is
\* no default app.
HelperCall(fn, i, ok) ==
    /\ modules[i].status = "loaded"
    /\ IF deployment.lib = "moduleLevel"
       THEN /\ lastCall' = CallOf(fn, i, <<>>, "",
                                  IF NoApps(adminApps) THEN "threw" ELSE "returned", "")
            /\ UNCHANGED <<adminApps, modules, initialized>>
       ELSE LET e == EnsureInitialized(adminApps, modules[i].isFirebaseInitialized,
                                       deployment.FIREBASE_CONFIG, ok)
                throws == e.threw \/ (fn # "getFirebaseAdmin" /\ e.apps = 0)
            IN  /\ modules' = [modules EXCEPT ![i].isFirebaseInitialized = e.flag]
                /\ adminApps' = e.apps
                /\ initialized' = initialized + (IF e.succeeded # "" THEN 1 ELSE 0)
                /\ lastCall' = CallOf(fn, i, e.tried, e.succeeded,
                                      IF throws THEN "threw" ELSE "returned", "")
    /\ UNCHANGED <<deployment, besideAdmin>>

\* export function getFirebaseAdmin()
GetFirebaseAdmin(i, ok) == HelperCall("getFirebaseAdmin", i, ok)

\* export function getDb()
GetDb(i, ok) == HelperCall("getDb", i, ok)

\* export function getAuth()
GetAuth(i, ok) == HelperCall("getAuth", i, ok)

\* export function ensureFirebaseInitialized(): boolean, of the fallback variant
EnsureFirebaseInitialized(i, ok) ==
    /\ modules[i].status = "loaded"
    /\ deployment.lib = "fallback"
    /\ LET e == EnsureInitialized(adminApps, modules[i].isFirebaseInitialized,
                                  deployment.FIREBASE_CONFIG, ok)
       IN  /\ modules' = [modules EXCEPT ![i].isFirebaseInitialized = e.flag]
           /\ adminApps' = e.apps
           /\ initialized' = initialized + (IF e.succeeded # "" THEN 1 ELSE 0)
           /\ lastCall' = CallOf("ensureFirebaseInitialized", i, e.tried, e.succeeded,
                                 "returned",
                                 IF ~e.threw /\ e.apps > 0 THEN "true" ELSE "false")
    /\ UNCHANGED <<deployment, besideAdmin>>

\* no module is loaded
AdminIdle ==
    /\ deployment = [lib |-> "moduleLevel", FIREBASE_CONFIG |-> "missing"]
    /\ adminApps = 0
    /\ modules = [i \in Instances |-> NotLoaded]
    /\ initialized = 0
    /\ lastCall = NoCall

\* a server process starts with either variant, in any environment
AdminInit ==
    /\ deployment \in [lib : Libs, FIREBASE_CONFIG : FirebaseConfigs]
    /\ adminApps = 0
    /\ modules = [i \in Instances |-> NotLoaded]
    /\ initialized = 0
    /\ lastCall = NoCall

----------------------------------------------------------------------------
(* The generation form, components/coloring-page-form.tsx, taken alone: a  *)
(* React component whose handlers and effects run to completion one at a   *)
(* time.  What its server action answers is the environment's choice here. *)
(* 'Create Another' (resetForm) is not a submit and is left out.           *)

\* the auth state has not been resolved yet (isUserLoading)
AuthLoading == "<loading>"

\* what onSnapshot delivers of users/{uid}
Profiles == [loaded : {TRUE}, generationCount : {0, 4, 5}, isSubscribed : BOOLEAN]

\* useState<UserProfile | null>(null)
NullProfile == [loaded |-> FALSE, generationCount |-> 0, isSubscribed |-> FALSE]

\* export const initialFormState
InitialFormState == [success |-> FALSE, message |-> Null, image |-> Null, prompt |-> Null]

\* messages of the errors that reach the catch block of the action: those of
\* the flow, and whatever text the store or an SDK puts in error.message
ThrownMessages ==
    { GatewayError("timeout"), GatewayError("unavailable"),
      "14 UNAVAILABLE", "Rate limit reached" }

\* the messages of the failures generateImageAction returns before its catch
\* block: they carry no prompt
RefusalMessages ==
    { "Prompt must be at least 3 characters long.", "User profile not found.",
      "Free generation limit reached. Please upgrade to Pro." }

\* the FormState values generateImageAction returns
FormResults ==
    { [success |-> TRUE, message |-> "Coloring page ready!", image |-> url,
       prompt |-> "cat"] : url \in ImageUrls }
    \cup
    { [success |-> FALSE, message |-> m, image |-> Null, prompt |-> Null] :
        m \in RefusalMessages }
    \cup
    { [success |-> FALSE, message |-> Caught(m), image |-> Null, prompt |-> "cat"] :
        m \in ThrownMessages }

\* const hasExceededLimit = userProfile ? !userProfile.isSubscribed &&
\*     userProfile.generationCount >= FREE_GENERATION_LIMIT : false;
HasExceededLimit ==
    /\ userProfile.loaded
    /\ ~userProfile.isSubscribed
    /\ userProfile.generationCount >= FREE_GENERATION_LIMIT

\* const showLoading = isPending && state.prompt;
ShowLoading == isPending /\ state.prompt # Null

\* const showResult = state.success && state.image && !isPending;
ShowResult == state.success /\ state.image # Null /\ ~isPending

\* const showError = !state.success && state.message && !isPending &&
\*     !state.message.includes('limit reached');
ShowError ==
    /\ ~state.success /\ state.message # Null /\ ~isPending
    /\ ~Includes(state.message, "limit reached")

\* const isDisabled = isPending || isProfileLoading || (hasExceededLimit && !isPro);
IsDisabled ==
    \/ isPending \/ isProfileLoading
    \/ (HasExceededLimit /\ ~(userProfile.loaded /\ userProfile.isSubscribed))

\* the <form> is rendered, and either its input and button are enabled or the
\* alert's Try Again button (formRef.current?.requestSubmit()) is there
CanSubmit == ~ShowResult /\ ~ShowLoading /\ (~IsDisabled \/ ShowError)

\* useFirebase() delivers the auth state: a user or none.  The effect on
\* [user, firestore, isUserLoading] subscribes to the profile or clears it.
AuthStateChanged(u) ==
    /\ u # user
    /\ user' = u
    /\ IF u \in UserIds
       THEN isProfileLoading' = TRUE /\ UNCHANGED userProfile
       ELSE isProfileLoading' = FALSE /\ userProfile' = NullProfile
    /\ UNCHANGED <<state, isPending, showUpgradeModal, route, dispatched, besideForm>>

\* the onSnapshot callback
ProfileSnapshot(exists, profile) ==
    /\ user \in UserIds
    /\ userProfile' = IF exists THEN profile ELSE userProfile
    /\ isProfileLoading' = FALSE
    /\ UNCHANGED <<user, state, isPending, showUpgradeModal, route, dispatched,
                   besideForm>>

\* const handleFormSubmit = (formData: FormData) => {...}
HandleFormSubmit ==
    /\ CanSubmit
    /\ IF user \notin UserIds
       THEN /\ route' = "/login"
            /\ UNCHANGED <<isPending, showUpgradeModal, dispatched>>
       ELSE IF HasExceededLimit
       THEN /\ showUpgradeModal' = TRUE
            /\ UNCHANGED <<isPending, route, dispatched>>
       ELSE /\ dispatched < MaxDispatches
            /\ dispatched' = dispatched + 1
            /\ isPending' = TRUE
            /\ UNCHANGED <<showUpgradeModal, route>>
    /\ UNCHANGED <<user, userProfile, isProfileLoading, state, besideForm>>

\* the dispatched action returns: state and isPending change, and the effect
\* on [state.message, state.success, isPending] runs
ActionReturns(result) ==
    /\ isPending
    /\ state' = result
    /\ isPending' = FALSE
    /\ showUpgradeModal' =
         IF /\ result.message # Null /\ ~result.success
            /\ Includes(result.message, "Free generation limit reached")
         THEN TRUE ELSE showUpgradeModal
    /\ UNCHANGED <<user, userProfile, isProfileLoading, route, dispatched, besideForm>>

\* <UpgradeProModal onClose={() => setShowUpgradeModal(false)} />
CloseUpgradeModal ==
    /\ showUpgradeModal
    /\ showUpgradeModal' = FALSE
    /\ UNCHANGED <<user, userProfile, isProfileLoading, state, isPending, route,
                   dispatched, besideForm>>

\* no form is mounted
FormIdle ==
    /\ user = AuthLoading
    /\ userProfile = NullProfile
    /\ isProfileLoading = TRUE
    /\ state = InitialFormState
    /\ isPending = FALSE
    /\ showUpgradeModal = FALSE
    /\ route = "/"
    /\ dispatched = 0

\* the form as it mounts: the useState and useActionState initial values
FormInit == FormIdle

----------------------------------------------------------------------------
(* One generation, run alone from a given record, through POST of          *)
(* generate-image and through the two generateImageAction server actions.  *)
(* The steps are those of the handlers above with no other request between *)
(* them; each run starts from the same record and the same (empty)         *)
(* artifact collection and meets the same gateway answer and store fault.  *)

\* the user records a generation can find
FoundDocs ==
    { NoDoc } \cup
    { [NewProfile EXCEPT !.generationCount = c, !.isSubscribed = s] :
        c \in {0, 4, 5}, s \in BOOLEAN }

\* the store operation that fails, if one does
StoreFaults == {"none", "get", "add", "update"}

Calls ==
    [prompt : Prompts, userId : {"u1"}, doc : FoundDocs, apps : {0, 1},
     outcome : GatewayOutcomes, fault : StoreFaults,
     sdkAccepts : BOOLEAN, fetchFails : BOOLEAN]

NotRun == [ran |-> FALSE, threw |-> FALSE, steps |-> <<>>, doc |-> NoDoc,
           records |-> <<>>, success |-> FALSE, message |-> ""]

\* the run made these steps, left the record and the collection so, and answered
Ran(steps, doc, records, success, message) ==
    [ran |-> TRUE, threw |-> FALSE, steps |-> steps, doc |-> doc,
     records |-> records, success |-> success, message |-> message]

\* the record and the locals after `const result = await generateColoringPage...`
Generated(in) == [Locals EXCEPT !.kind = "generate", !.userId = in.userId,
                                !.prompt = in.prompt, !.imageUrl = in.outcome,
                                !.isPro = IsPro(in.doc),
                                !.generationCount = in.doc.generationCount]

\* POST of generate-image, route.ts lines 17-100
Post(in) ==
    LET before == GenerateBeforeRead([apps |-> in.apps, parsable |-> TRUE,
                                      prompt |-> in.prompt, userId |-> in.userId])
        added == AddImageRecord(<<>>, Generated(in))
    IN
    IF before # Pass THEN Ran(<<>>, in.doc, <<>>, FALSE, before.message)
    ELSE IF in.fault = "get"
    THEN Ran(<<"read">>, in.doc, <<>>, FALSE, Caught("14 UNAVAILABLE"))
    ELSE IF ProfileMissing(in.doc)
    THEN Ran(<<"read">>, in.doc, <<>>, FALSE, "User profile not found.")
    ELSE IF LimitReached(IsPro(in.doc), in.doc.generationCount)
    THEN Ran(<<"read", "quota">>, in.doc, <<>>, FALSE,
             "Free generation limit reached. Please upgrade to Pro.")
    ELSE IF in.outcome \notin ImageUrls
    THEN Ran(<<"read", "quota", "gateway">>, in.doc, <<>>, FALSE,
             Caught(GatewayError(in.outcome)))
    ELSE IF in.fault = "add"
    THEN Ran(<<"read", "quota", "gateway", "append">>, in.doc, <<>>, FALSE,
             Caught("14 UNAVAILABLE"))
    ELSE IF IsPro(in.doc)
    THEN Ran(<<"read", "quota", "gateway", "append">>, in.doc, added, TRUE,
             "Coloring page ready!")
    ELSE IF DocUpdateFails(in.doc, in.fault = "update")
    THEN Ran(<<"read", "quota", "gateway", "append", "increment">>, in.doc, added,
             FALSE, Caught(StoreErrorMessage(in.doc, in.fault = "update")))
    ELSE Ran(<<"read", "quota", "gateway", "append", "increment">>,
             IncrementGenerationCount(in.doc, in.doc.generationCount), added, TRUE,
             "Coloring page ready!")

\* schema.safeParse of src/app/actions.ts: a prompt of the form is a string, and
\* min(3) has the message 'Prompt must be at least 3 characters long.'
ActionPromptErrors(prompt) ==
    IF Len(prompt) < 3 THEN <<"Prompt must be at least 3 characters long.">> ELSE <<>>

\* doc(db, 'users', userId) of 'firebase/firestore' given the Firestore of
\* firebase-admin
SdkMismatch ==
    "Expected first argument to collection() to be a CollectionReference, a DocumentReference or FirebaseFirestore"

\* the promise of the action rejects: no FormState is returned
Threw(message) == [NotRun EXCEPT !.ran = TRUE, !.threw = TRUE, !.message = message]

\* generateImageAction of src/app/actions.ts, lines 20-94: getDb() is called
\* before the try block, and the store is used through the functions of the
\* client SDK
GenerateImageAction(in) ==
    LET added == AddImageRecord(<<>>, Generated(in)) IN
    IF ActionPromptErrors(in.prompt) # <<>>
    THEN Ran(<<>>, in.doc, <<>>, FALSE, ActionPromptErrors(in.prompt)[1])
    ELSE IF in.apps = 0 THEN Threw(AdminNotInitialized)
    ELSE IF ~in.sdkAccepts THEN Ran(<<>>, in.doc, <<>>, FALSE, Caught(SdkMismatch))
    ELSE IF in.fault = "get"
    THEN Ran(<<"read">>, in.doc, <<>>, FALSE, Caught("14 UNAVAILABLE"))
    ELSE IF ProfileMissing(in.doc)
    THEN Ran(<<"read">>, in.doc, <<>>, FALSE, "User profile not found.")
    ELSE IF LimitReached(IsPro(in.doc), in.doc.generationCount)
    THEN Ran(<<"read", "quota">>, in.doc, <<>>, FALSE,
             "Free generation limit reached. Please upgrade to Pro.")
    ELSE IF in.outcome \notin ImageUrls
    THEN Ran(<<"read", "quota", "gateway">>, in.doc, <<>>, FALSE,
             Caught(GatewayError(in.outcome)))
    ELSE IF in.fault = "add"
    THEN Ran(<<"read", "quota", "gateway", "append">>, in.doc, <<>>, FALSE,
             Caught("14 UNAVAILABLE"))
    ELSE IF IsPro(in.doc)
    THEN Ran(<<"read", "quota", "gateway", "append">>, in.doc, added, TRUE,
             "Coloring page ready!")
    ELSE IF DocUpdateFails(in.doc, in.fault = "update")
    THEN Ran(<<"read", "quota", "gateway", "append", "increment">>, in.doc, added,
             FALSE, Caught(StoreErrorMessage(in.doc, in.fault = "update")))
    ELSE Ran(<<"read", "quota", "gateway", "append", "increment">>,
             IncrementGenerationCount(in.doc, in.doc.generationCount), added, TRUE,
             "Coloring page ready!")

\* generateImageAction of aicolouringstudio-main/src/app/actions.ts, lines 9-58:
\* its own test of the prompt, then a fetch of /api/generate-image
ProxyAction(in) ==
    IF in.prompt = "" \/ Len(in.prompt) < 3
    THEN Ran(<<>>, in.doc, <<>>, FALSE, "Prompt must be at least 3 characters long.")
    ELSE IF in.fetchFails
    THEN Ran(<<>>, in.doc, <<>>, FALSE, Caught("fetch failed"))
    ELSE [Post(in) EXCEPT !.message = IF ~Post(in).success /\ @ = ""
                                      THEN "Something went wrong." ELSE @]

RunRoute ==
    /\ ~byRoute.ran
    /\ byRoute' = Post(call)
    /\ UNCHANGED <<call, byAction, byProxy, besideEntries>>

RunGenerateImageAction ==
    /\ ~byAction.ran
    /\ byAction' = GenerateImageAction(call)
    /\ UNCHANGED <<call, byRoute, byProxy, besideEntries>>

RunProxyAction ==
    /\ ~byProxy.ran
    /\ byProxy' = ProxyAction(call)
    /\ UNCHANGED <<call, byRoute, byAction, besideEntries>>

\* nothing has been run
NoneRun == byRoute = NotRun /\ byAction = NotRun /\ byProxy = NotRun

\* no generation is being compared
EntriesIdle ==
    /\ call = [prompt |-> "cat", userId |-> "u1", doc |-> NoDoc, apps |-> 1,
               outcome |-> "timeout", fault |-> "none", sdkAccepts |-> TRUE,
               fetchFails |-> FALSE]
    /\ NoneRun

\* any generation, before it is run
EntriesInit == call \in Calls /\ NoneRun

----------------------------------------------------------------------------
(* The system *)

\* u1 has signed up with Google and may have used some free generations;
\* u2 has no account
HandlersInit ==
    /\ \E c \in InitCounts :
         /\ users = [u \in UserIds |->
                IF u = "u1" THEN [NewProfile EXCEPT !.generationCount = c] ELSE NoDoc]
         /\ expectedCount = [u \in UserIds |-> IF u = "u1" THEN c ELSE 0]
    /\ images = [u \in UserIds |-> <<>>]
    /\ auth = [u \in UserIds |-> IF u = "u1" THEN "google" ELSE "none"]
    /\ reqs = EmptyBag
    /\ started = 0
    /\ lastResp = NoResp
    /\ peakGen = [u \in UserIds |-> 0]
    /\ charged = [u \in UserIds |-> 0]
    /\ quiet = [u \in UserIds |-> TRUE]

Init == HandlersInit /\ VerifierIdle /\ AdminIdle /\ FormIdle /\ EntriesIdle

Next ==
    \/ \E req \in VerifyRequests : VerifyPaymentReceive(req)
    \/ \E r \in InFlightNow, fault \in BOOLEAN, now \in Times :
          VerifyPaymentUpdate(r, fault, now)
    \/ \E req \in GenerateRequests : GenerateValidate(req)
    \/ \E r \in InFlightNow, fault \in BOOLEAN : GenerateReadUser(r, fault)
    \/ \E r \in InFlightNow, outcome \in GatewayOutcomes : GenerateGateway(r, outcome)
    \/ \E r \in InFlightNow, fault \in BOOLEAN : GeneratePersist(r, fault)
    \/ \E r \in InFlightNow, fault \in BOOLEAN : GenerateIncrement(r, fault)
    \/ \E u \in UserIds : GoogleSignInPopup(u)
    \/ \E r \in InFlightNow, fault \in BOOLEAN : GoogleSignInSetDoc(r, fault)
    \/ \E u \in UserIds : EmailSignUpCreate(u)
    \/ \E r \in InFlightNow, fault \in BOOLEAN : EmailSignUpSetDoc(r, fault)

Spec == Init /\ [][Next]_vars

\* Every await of generate-image settles: the store's operations complete or
\* fail, and the webhook call answers or is aborted by its 30-second timeout.
FairSpec ==
    /\ Spec
    /\ WF_vars(\E r \in InFlightNow, fault \in BOOLEAN : GenerateReadUser(r, fault))
    /\ WF_vars(\E r \in InFlightNow, outcome \in GatewayOutcomes :
                  GenerateGateway(r, outcome))
    /\ WF_vars(\E r \in InFlightNow, fault \in BOOLEAN : GeneratePersist(r, fault))
    /\ WF_vars(\E r \in InFlightNow, fault \in BOOLEAN : GenerateIncrement(r, fault))

\* verify-payment requests of one user with several payments, and nothing else
PaymentsNext ==
    \/ \E req \in PaymentRequests : VerifyPaymentReceive(req)
    \/ \E r \in InFlightNow, fault \in BOOLEAN, now \in Times :
          VerifyPaymentUpdate(r, fault, now)

PaymentsSpec == Init /\ [][PaymentsNext]_vars

\* one generation run through each of the three entry points, in any order
EntriesNext ==
    \/ RunRoute
    \/ RunGenerateImageAction
    \/ RunProxyAction

\* the handlers, the Signature Verifier, the firebaseAdmin module and the form
\* are at rest
EntriesStart == HandlersInit /\ VerifierIdle /\ AdminIdle /\ FormIdle /\ EntriesInit

EntriesSpec == EntriesStart /\ [][EntriesNext]_vars

\* the Signature Verifier applied, any number of times, to one input
VerifierNext == RecomputeAndCompare

\* the handlers and the firebaseAdmin module are at rest
VerifierStart == HandlersInit /\ VerifierInit /\ AdminIdle /\ FormIdle /\ EntriesIdle

VerifierSpec == VerifierStart /\ [][VerifierNext]_vars

\* a server process: its modules are loaded and request handlers call them
AdminNext ==
    \/ \E i \in Instances, ok \in Oks, shaken \in BOOLEAN : LoadModule(i, ok, shaken)
    \/ \E i \in Instances, ok \in Oks : GetFirebaseAdmin(i, ok)
    \/ \E i \in Instances, ok \in Oks : GetDb(i, ok)
    \/ \E i \in Instances, ok \in Oks : GetAuth(i, ok)
    \/ \E i \in Instances, ok \in Oks : EnsureFirebaseInitialized(i, ok)

\* the handlers and the Signature Verifier are at rest
AdminStart == HandlersInit /\ VerifierIdle /\ AdminInit /\ FormIdle /\ EntriesIdle

AdminSpec == AdminStart /\ [][AdminNext]_vars

\* the generation form in a browser
FormNext ==
    \/ \E u \in UserIds \cup {Undefined} : AuthStateChanged(u)
    \/ \E exists \in BOOLEAN, profile \in Profiles : ProfileSnapshot(exists, profile)
    \/ HandleFormSubmit
    \/ \E result \in FormResults : ActionReturns(result)
    \/ CloseUpgradeModal

\* the handlers, the Signature Verifier and the firebaseAdmin module are at rest
FormStart == HandlersInit /\ VerifierIdle /\ AdminIdle /\ FormInit /\ EntriesIdle

FormSpec == FormStart /\ [][FormNext]_vars

TypeOK ==
    /\ \A u \in UserIds : users[u].generationCount \in Nat
    /\ started \in 0..MaxRequests
    /\ BagCardinality(reqs) <= MaxInFlight

----------------------------------------------------------------------------
(* Properties *)

\* the step is the verify-payment request r applying its store update
UpgradeBy(r, u) ==
    /\ r.kind = "verify" /\ r.pc = "Updating" /\ r.userId = u
    /\ Ends(r)
    /\ lastResp'.kind = "verify" /\ lastResp'.userId = u /\ lastResp'.status = 200

\* C1: a user's isSubscribed goes from false to true only in the step in which a
\* verify-payment request for that user applies its store update, and that
\* request's submitted signature equals the HMAC of its own order id and payment
\* id under the server secret; no step of a generation, of a rejected
\* verification or of a sign-up sets it to true.
C1_UpgradeOnlyByVerifiedPayment ==
    [][\A u \in UserIds :
         (~users[u].isSubscribed /\ users'[u].isSubscribed) =>
            \E r \in InFlightNow :
               /\ UpgradeBy(r, u)
               /\ r.signature =
                    HmacSha256Hex(Secret, SignedMessage(r.orderId, r.paymentId))
       ]_vars

C1_Witness ==
    /\ users["u1"].isSubscribed
    /\ lastResp.kind = "verify" /\ lastResp.status = 200 /\ lastResp.userId = "u1"

\* C2: once a user's isSubscribed is true it is true in every later state.
C2_SubscriptionNeverReverts ==
    [][\A u \in UserIds : users[u].isSubscribed => users'[u].isSubscribed]_vars

\* C3: generationCount is never incremented in a state where the user's stored
\* isSubscribed is true.
C3_NoIncrementWhileSubscribed ==
    [][\A u \in UserIds :
         users[u].isSubscribed => users'[u].generationCount <= users[u].generationCount
       ]_vars

LimitMessage == "Free generation limit reached. Please upgrade to Pro."

\* C4: a generation request that read an existing user's record is answered 403
\* with the limit message exactly when the record it read has isSubscribed not
\* true and generationCount >= 5; the rejection ends the request with the user
\* records and the artifacts as they were; a request that is past the quota check
\* (at the gateway or writing) read a subscribed record or a count below 5.
C4_LimitRejection ==
    [][/\ \A r \in InFlightNow :
            (GenerateReadUser(r, FALSE) /\ users[r.userId].exists) =>
               LET doc == users[r.userId]
                   over == doc.isSubscribed # TRUE /\ doc.generationCount >= 5
               IN  /\ over =>
                        /\ lastResp' = Response("generate", r.userId, 403, LimitMessage)
                        /\ Ends(r)
                        /\ users' = users /\ images' = images
                   /\ ~over =>
                        /\ lastResp' = lastResp
                        /\ \E r2 \in BagToSet(reqs') :
                              /\ r2.pc = "Generating" /\ r2.userId = r.userId
                              /\ Becomes(r, r2)
       /\ \A r \in InFlightNow :
            r.pc \in {"Generating", "Persisting", "Incrementing"} =>
               r.isPro \/ r.generationCount < 5
       ]_vars

C4_Witness ==
    /\ lastResp = Response("generate", "u1", 403, LimitMessage)
    /\ users["u1"].generationCount = 5 /\ ~users["u1"].isSubscribed

\* C5: as long as a user never had more than two generation requests in flight
\* at once, generationCount is at most FREE_LIMIT + 1; the witness is the race of
\* two requests that both read 4 and leave 6.
C5_AtMostOneOverLimit ==
    \A u \in UserIds :
       peakGen[u] <= 2 => users[u].generationCount <= FREE_GENERATION_LIMIT + 1

C5_Witness ==
    /\ users["u1"].generationCount = FREE_GENERATION_LIMIT + 1
    /\ peakGen["u1"] = 2

\* C6: while only generation requests have written a user's record, its
\* generationCount is its starting value plus the number of generation requests
\* answered 200, whatever their interleaving (no increment is lost).
C6_NoLostIncrement ==
    \A u \in UserIds :
       (quiet[u] /\ users[u].exists) => users[u].generationCount = expectedCount[u]

C6_Witness ==
    /\ quiet["u1"] /\ peakGen["u1"] = 2
    /\ users["u1"].generationCount = 2
    /\ reqs = EmptyBag

\* C7: generationCount is a non-negative integer that no step decreases.
C7_CountNeverDecreases ==
    [][\A u \in UserIds :
         /\ users'[u].generationCount \in Nat
         /\ users'[u].generationCount >= users[u].generationCount
       ]_vars

\* C8: a verify-payment update that reaches the store for an existing user is
\* answered 200 and leaves the record subscribed with the request's order id and
\* payment id; when the record already holds that payment (a repeated call) the
\* step changes nothing but upgradedAt.
C8_RepeatedUpgradeIdempotent ==
    [][\A r \in InFlightNow, now \in Times :
         (VerifyPaymentUpdate(r, FALSE, now) /\ users[r.userId].exists) =>
            LET u == r.userId IN
            /\ lastResp'.status = 200 /\ lastResp'.kind = "verify"
            /\ users'[u].isSubscribed
            /\ users'[u].razorpayOrderId = r.orderId
            /\ users'[u].razorpayPaymentId = r.paymentId
            /\ ( /\ users[u].isSubscribed
                 /\ users[u].razorpayOrderId = r.orderId
                 /\ users[u].razorpayPaymentId = r.paymentId )
               => users' = [users EXCEPT ![u].upgradedAt = users'[u].upgradedAt]
       ]_vars

C8_Witness ==
    /\ lastResp.kind = "verify" /\ lastResp.status = 200 /\ lastResp.replay
    /\ users[lastResp.userId].upgradedAt = 2

\* every request of the model, as an enumerated set
AllVerifyRequests == DOMAIN [ req \in VerifyRequests |-> TRUE ]

\* the step is verify-payment receiving req.  The first conjunct follows from
\* the second; it spares its evaluation for the requests that the step cannot
\* be of.
Received(req) ==
    /\ IF reqs' = reqs
       THEN lastResp'.userId = req.body.userId /\ lastResp'.kind = "verify"
       ELSE \E r \in BagToSet(reqs') :
               /\ r.userId = req.body.userId
               /\ r.signature = req.body.razorpay_signature
    /\ VerifyPaymentReceive(req)

\* what a verify-payment request is, stated on the request alone
AllFieldsPresent(b) ==
    /\ b.razorpay_order_id \notin {Undefined, ""}
    /\ b.razorpay_payment_id \notin {Undefined, ""}
    /\ b.razorpay_signature \notin {Undefined, ""}
    /\ b.userId \notin {Undefined, ""}

SecretConfigured(req) == req.secret = Secret

CorrectSignature(req) ==
    req.body.razorpay_signature =
        HmacSha256Hex(Secret, SignedMessage(req.body.razorpay_order_id,
                                            req.body.razorpay_payment_id))

\* requests with all four fields, the secret configured and a wrong signature
WrongSignatureRequests ==
    DOMAIN [ req \in { r \in VerifyRequests :
                         /\ r.parsable /\ AllFieldsPresent(r.body)
                         /\ SecretConfigured(r) /\ ~CorrectSignature(r) } |-> TRUE ]

InvalidSignature(req) ==
    Response("verify", req.body.userId, 400, "Invalid payment signature")

PassedToStore ==
    \E r \in BagToSet(reqs') : r.kind = "verify" /\ r.pc = "Updating" /\ Starts(r)

\* the verify-payment request was answered at once with this status and message
AnsweredWith(req, status, message) ==
    reqs' = reqs /\ lastResp' = Response("verify", req.body.userId, status, message)

\* the store update of the request r and its response
StoreStepInOrder(r, fault) ==
    LET u == r.userId IN
    IF users[u].exists /\ ~fault
    THEN /\ lastResp'.status = 200 /\ lastResp'.kind = "verify"
         /\ users'[u].isSubscribed
    ELSE /\ lastResp'.status = 500 /\ lastResp'.kind = "verify"
         /\ lastResp'.message \in {"14 UNAVAILABLE", "5 NOT_FOUND: No document to update"}
         /\ users' = users

----------------------------------------------------------------------------
(* Replay of a processed payment *)

\* the record holds the payment as its processing left it
HoldsPayment(doc, orderId, paymentId) ==
    /\ doc.exists /\ doc.isSubscribed
    /\ doc.razorpayOrderId = orderId /\ doc.razorpayPaymentId = paymentId

\* what a payment sets in a record, but for the time
Entitlement(doc) == <<doc.isSubscribed, doc.razorpayOrderId, doc.razorpayPaymentId>>

\* C11: when a verify-payment request reaches the store with an (order id,
\* payment id) that some user's record already holds from its processing, with
\* whatever userId the request names, the step leaves isSubscribed, order id and
\* payment id of every user record as they were.
C11_ReplayHarmless ==
    [][\A r \in InFlightNow, fault \in BOOLEAN, now \in Times :
         ( /\ VerifyPaymentUpdate(r, fault, now)
           /\ \E p \in UserIds : HoldsPayment(users[p], r.orderId, r.paymentId) )
         => \A u \in UserIds : Entitlement(users'[u]) = Entitlement(users[u])
       ]_vars

----------------------------------------------------------------------------
(* Requests for a user without a record *)

\* the generation request is past the quota check
PastQuotaCheck(r) ==
    r.kind = "generate" /\ r.pc \in {"Generating", "Persisting", "Incrementing"}

\* C12: a generation request whose read finds no record for its userId is
\* answered 404 'User profile not found.' and ends there, with every user record
\* and every artifact as it was; no request at the gateway or at a write is for
\* a userId without a record; a record comes to exist only by a sign-up.
C12_MissingProfile404 ==
    [][/\ \A r \in InFlightNow :
            (GenerateReadUser(r, FALSE) /\ ~users[r.userId].exists) =>
               /\ lastResp' = Response("generate", r.userId, 404, "User profile not found.")
               /\ Ends(r)
               /\ users' = users /\ images' = images
       /\ \A r \in InFlightNow : PastQuotaCheck(r) => users[r.userId].exists
       /\ \A u \in UserIds :
            (~users[u].exists /\ users'[u].exists) =>
               \E r \in InFlightNow : r.kind \in {"google", "email"} /\ Ends(r)
       ]_vars

C12_Witness ==
    /\ lastResp = Response("generate", "u2", 404, "User profile not found.")
    /\ ~users["u2"].exists /\ images["u2"] = <<>>

\* C13: a verify-payment request that reaches the store (its signature is valid)
\* for a userId without a record is answered with success false, status 500, and
\* leaves every user record as it was; no step of the payment handler makes a
\* record exist (the step that receives a request writes nothing, the store
\* update keeps the set of records).
C13_PaymentNeverCreatesRecord ==
    [][/\ \A r \in InFlightNow, fault \in BOOLEAN, now \in Times :
            (VerifyPaymentUpdate(r, fault, now) /\ ~users[r.userId].exists) =>
               /\ lastResp'.kind = "verify" /\ lastResp'.userId = r.userId
               /\ ~lastResp'.success /\ lastResp'.status = 500
               /\ users' = users
       /\ \A r \in InFlightNow :
            (r.kind = "verify" /\ CopiesIn(r, reqs') < CopiesIn(r, reqs)) =>
               \A u \in UserIds : users'[u].exists = users[u].exists
       /\ started' # started => users' = users
       ]_vars

C13_Witness ==
    /\ lastResp.kind = "verify" /\ ~lastResp.success
    /\ lastResp.message = "5 NOT_FOUND: No document to update"
    /\ ~users[lastResp.userId].exists

----------------------------------------------------------------------------
(* The two writes of a generation *)

\* the artifact record of the request r
ArtifactOf(r) == [imageUrl |-> r.imageUrl, prompt |-> r.prompt]

\* C14: in a generation request of a non-subscribed user that read a count below
\* 5, the artifact write appends exactly one record, with the request's prompt
\* and the image URL the response returns, and writes nothing else; the increment
\* raises the stored generationCount by exactly 1, writes nothing else and is
\* followed by the 200 response; when no other request for the user ran beside
\* it, that is from the count the request read to that count plus one (4
\* becomes 5); the earlier steps of the request write nothing.
C14_OneArtifactOneIncrement ==
    [][/\ \A r \in InFlightNow :
            (GeneratePersist(r, FALSE) /\ ~r.isPro) =>
               /\ images' = [images EXCEPT ![r.userId] = Append(@, ArtifactOf(r))]
               /\ r.imageUrl \in ImageUrls /\ r.prompt \in Prompts
               /\ users' = users /\ lastResp' = lastResp
       /\ \A r \in InFlightNow :
            (GenerateIncrement(r, FALSE) /\ users[r.userId].exists) =>
               LET u == r.userId IN
               /\ ~r.isPro /\ r.generationCount < FREE_GENERATION_LIMIT
               /\ users' = [users EXCEPT ![u].generationCount = @ + 1]
               /\ images' = images
               /\ \E i \in 1..Len(images[u]) : images[u][i] = ArtifactOf(r)
               /\ lastResp'.success /\ lastResp'.status = 200
               /\ lastResp'.userId = u /\ lastResp'.imageUrl = r.imageUrl
               /\ (quiet[u] /\ peakGen[u] <= 1) =>
                     /\ users[u].generationCount = r.generationCount
                     /\ images[u][Len(images[u])] = ArtifactOf(r)
       /\ \A r \in InFlightNow :
            ( /\ r.kind = "generate" /\ r.pc \in {"QuotaChecking", "Generating"}
              /\ CopiesIn(r, reqs') < CopiesIn(r, reqs) ) =>
               users' = users /\ images' = images
       /\ started' # started => users' = users /\ images' = images
       ]_vars

\* 4 became 5 with one artifact, in a request that ran alone
C14_Witness ==
    /\ lastResp.kind = "generate" /\ lastResp.success /\ lastResp.userId = "u1"
    /\ users["u1"].generationCount = 5 /\ ~users["u1"].isSubscribed
    /\ quiet["u1"] /\ peakGen["u1"] = 1 /\ charged["u1"] = 1
    /\ Len(images["u1"]) = 1 /\ images["u1"][1].imageUrl = lastResp.imageUrl
    /\ reqs = EmptyBag

\* C15: in every reachable state the increments that generation requests have
\* applied to a user's generationCount are at most the artifacts persisted for
\* the user, the requests between their two writes included; an increment that
\* fails leaves the artifact recorded and the count as it was, and is answered
\* with a failure.
C15_ArtifactBeforeIncrement ==
    /\ [](\A u \in UserIds : charged[u] <= Len(images[u]))
    /\ [][\A r \in InFlightNow :
            /\ (r.kind = "generate" /\ r.pc = "Incrementing") =>
                  \E i \in 1..Len(images[r.userId]) : images[r.userId][i] = ArtifactOf(r)
            /\ GenerateIncrement(r, TRUE) =>
                  /\ users' = users /\ images' = images /\ charged' = charged
                  /\ ~lastResp'.success /\ lastResp'.status = 500
         ]_vars

\* an increment failed: the artifact is there and the count is not charged
C15_Witness ==
    /\ lastResp.kind = "generate" /\ lastResp.status = 500 /\ lastResp.userId = "u1"
    /\ lastResp.message = Caught("14 UNAVAILABLE")
    /\ Len(images["u1"]) = 1 /\ charged["u1"] = 0
    /\ quiet["u1"] /\ users["u1"].generationCount = 4
    /\ reqs = EmptyBag

----------------------------------------------------------------------------
(* Failures of the gateway *)

\* the string s contains the string w
Contains(s, w) ==
    \E i \in 1..(Len(s) - Len(w) + 1) : SubSeq(s, i, i + Len(w) - 1) = w

\* the gateway call of r ended without an image: nothing is written and the
\* request is over
EndsUnwritten(r) ==
    /\ Ends(r)
    /\ users' = users /\ images' = images /\ charged' = charged

----------------------------------------------------------------------------
(* Validation of a generation request *)

\* the prompt has fewer than 3 characters, or is missing
PromptTooShort(req) == req.prompt = Undefined \/ Len(req.prompt) < 3

\* the userId is missing or empty
UserIdNotPresent(req) == req.userId \in {Undefined, ""}

\* C17: every generate-image request (served with Firebase Admin initialized,
\* its body read) whose prompt has fewer than 3 characters or whose userId is
\* missing or empty is answered 400 and goes no further: no read, no gateway
\* call, no write.
C17_InvalidInput400 ==
    [][started' # started =>
         \A req \in GenerateRequests :
            ( /\ req.parsable /\ req.apps # 0
              /\ PromptTooShort(req) \/ UserIdNotPresent(req)
              /\ GenerateValidate(req) )
            => /\ lastResp'.status = 400 /\ lastResp'.kind = "generate"
               /\ reqs' = reqs /\ users' = users /\ images' = images
       ]_vars

----------------------------------------------------------------------------
(* The states of a generation request.  Validating is the step that receives *)
(* the request; Persisting covers both writes, the artifact and the          *)
(* increment; Done and Failed are the two ways a request leaves the bag.     *)

\* the forward moves between the states a request in flight can be in
ForwardMoves ==
    { <<"QuotaChecking", "Generating">>, <<"Generating", "Persisting">>,
      <<"Persisting", "Incrementing">> }

\* the request r ends Done: the 200 response
EndsDone(r) ==
    /\ Ends(r)
    /\ lastResp'.kind = "generate" /\ lastResp'.userId = r.userId
    /\ lastResp'.success /\ lastResp'.status = 200

\* the request r ends Failed: a failure response with its message
EndsFailed(r) ==
    /\ Ends(r)
    /\ lastResp'.kind = "generate" /\ lastResp'.userId = r.userId
    /\ ~lastResp'.success /\ lastResp'.status # 200 /\ lastResp'.message # ""

\* C18: a generation request enters at QuotaChecking when its validation passed
\* and is Failed at once otherwise; in flight it only moves QuotaChecking ->
\* Generating -> Persisting (artifact, then increment), one state at a time, or
\* ends: Done from Persisting only, Failed from any state, never both; requests
\* at the gateway or later passed the quota check, requests that write hold
\* the image URL the gateway returned, and only those write.
C18_StateMachine ==
    [][/\ \A r2 \in BagToSet(reqs') :
            (r2.kind = "generate" /\ Starts(r2)) =>
               r2.pc = "QuotaChecking" /\ lastResp' = lastResp
       /\ (started' # started /\ reqs' = reqs /\ lastResp'.kind = "generate") =>
            ~lastResp'.success /\ lastResp'.status # 200
       /\ \A r \in InFlightNow :
            (r.kind = "generate" /\ CopiesIn(r, reqs') < CopiesIn(r, reqs)) =>
               \/ \E r2 \in BagToSet(reqs') :
                     /\ Becomes(r, r2) /\ lastResp' = lastResp
                     /\ r2.kind = "generate" /\ r2.userId = r.userId
                     /\ r2.prompt = r.prompt
                     /\ <<r.pc, r2.pc>> \in ForwardMoves
               \/ EndsDone(r) /\ r.pc \in {"Persisting", "Incrementing"}
               \/ EndsFailed(r)
       /\ \A r \in InFlightNow :
            /\ PastQuotaCheck(r) => r.isPro \/ r.generationCount < FREE_GENERATION_LIMIT
            /\ (r.kind = "generate" /\ r.pc \in {"Persisting", "Incrementing"}) =>
                  r.imageUrl \in ImageUrls
            /\ (r.kind = "generate" /\ r.pc \in {"QuotaChecking", "Generating"}) =>
                  r.imageUrl = Undefined
       /\ (images' # images \/ charged' # charged) =>
            \E r \in InFlightNow :
               /\ r.kind = "generate" /\ r.pc \in {"Persisting", "Incrementing"}
               /\ CopiesIn(r, reqs') < CopiesIn(r, reqs)
       ]_vars

\* a subscribed user's request went from Persisting to Done
C18_Witness ==
    /\ lastResp.kind = "generate" /\ lastResp.success
    /\ users[lastResp.userId].isSubscribed
    /\ Len(images[lastResp.userId]) = 1 /\ charged[lastResp.userId] = 0

----------------------------------------------------------------------------
(* Termination of a generation request *)

\* C19: whenever generation requests of a user are in flight, there comes a
\* state where none is; a request leaves only with its response, Done or Failed,
\* and a gateway call that does not answer within the timeout ends the request
\* Failed with the timeout's message.
C19_EveryGenerationAnswered ==
    /\ \A u \in UserIds : (InFlight(reqs, u) > 0) ~> (InFlight(reqs, u) = 0)
    /\ [][\A r \in InFlightNow :
            /\ ( /\ r.kind = "generate" /\ CopiesIn(r, reqs') < CopiesIn(r, reqs)
                 /\ BagCardinality(reqs') < BagCardinality(reqs) )
               => EndsDone(r) \/ EndsFailed(r)
            /\ GenerateGateway(r, "timeout") =>
                  /\ EndsFailed(r)
                  /\ lastResp'.message = "X The image generation service took too long to respond. Please try again in a moment."
         ]_vars

\* two requests of a user were in flight at once, all are answered, the last
\* after a gateway timeout
C19_Witness ==
    /\ lastResp.kind = "generate" /\ ~lastResp.success
    /\ lastResp.message = Caught(GatewayError("timeout"))
    /\ peakGen[lastResp.userId] = 2
    /\ reqs = EmptyBag

----------------------------------------------------------------------------
(* The shape of the responses *)

\* the response is one of the two handlers'
FromHandler(resp) == resp.kind \in {"verify", "generate"}

\* {success: false, message} with a non-empty message and an error status
FailureShape(resp) ==
    /\ ~resp.success
    /\ resp.message \notin {"", Undefined}
    /\ resp.status \in {400, 403, 404, 500}

\* C20: every response of the two handlers is either success true with status
\* 200, or success false with a non-empty message and a status that is not 200;
\* every invocation that ends, whether refused on receipt, ended by a check or
\* by a caught error, gives such a response.
C20_FailureShape ==
    /\ [](FromHandler(lastResp) =>
            IF lastResp.success THEN lastResp.status = 200 ELSE FailureShape(lastResp))
    /\ [][/\ (started' # started /\ reqs' = reqs) =>
                FromHandler(lastResp') /\ FailureShape(lastResp')
           /\ \A r \in InFlightNow :
                ( /\ r.kind \in {"verify", "generate"}
                  /\ CopiesIn(r, reqs') < CopiesIn(r, reqs)
                  /\ BagCardinality(reqs') < BagCardinality(reqs) )
                => /\ lastResp'.kind = r.kind /\ lastResp'.userId = r.userId
                   /\ lastResp'.success \/ FailureShape(lastResp')
         ]_vars

\* an unparsable body was answered by the catch block of generate-image
C20_Witness ==
    /\ lastResp = Response("generate", Undefined, 500, Caught(BodyParseError))
    /\ started > 0

----------------------------------------------------------------------------
(* Frame of the two handlers *)

\* the step is one taken by the request r in flight: r leaves the bag, or goes
\* on in it with its locals changed
StepOf(r) == started' = started /\ CopiesIn(r, reqs') < CopiesIn(r, reqs)

\* the artifact records of u before the step are all there after it, in place
ArtifactsKept(u) ==
    /\ Len(images'[u]) >= Len(images[u])
    /\ SubSeq(images'[u], 1, Len(images[u])) = images[u]

\* C21: a step of a verify-payment request leaves generationCount and the
\* artifact collection of its user unchanged; a step of a generate-image request
\* leaves isSubscribed, the payment identifiers and upgradedAt of its user
\* unchanged; a step of either leaves every other user's record and artifacts
\* as they were, and deletes no user record and no artifact record; the step
\* that receives a request writes nothing.
C21_HandlerFrame ==
    [][/\ started' # started => users' = users /\ images' = images
       /\ \A r \in InFlightNow :
            (StepOf(r) /\ r.kind \in {"verify", "generate"}) =>
               /\ \A u \in UserIds \ {r.userId} :
                    users'[u] = users[u] /\ images'[u] = images[u]
               /\ \A u \in UserIds :
                    /\ users[u].exists => users'[u].exists
                    /\ ArtifactsKept(u)
               /\ r.kind = "verify" =>
                    /\ users'[r.userId].generationCount = users[r.userId].generationCount
                    /\ images'[r.userId] = images[r.userId]
               /\ r.kind = "generate" =>
                    /\ Entitlement(users'[r.userId]) = Entitlement(users[r.userId])
                    /\ users'[r.userId].upgradedAt = users[r.userId].upgradedAt
      ]_vars

\* u1 used a free generation (count 4 -> 5, one artifact) and then paid: the
\* upgrade left the count and the artifact, the generation left the entitlement
C21_Witness ==
    /\ users["u1"].isSubscribed /\ users["u1"].generationCount = 5
    /\ Len(images["u1"]) = 1 /\ charged["u1"] = 1
    /\ lastResp.kind = "verify" /\ lastResp.status = 200 /\ lastResp.userId = "u1"

----------------------------------------------------------------------------
(* The Signature Verifier *)

\* the signature the gateway gives for the verifier's order id and payment id
\* under the server's secret
CorrectFor(in) ==
    HmacSha256Hex(in.secret,
                  SignedMessage(in.body.razorpay_order_id, in.body.razorpay_payment_id))

\* the strings a and b have the same length and differ in exactly one place
OneCharacterApart(a, b) ==
    /\ Len(a) = Len(b)
    /\ Cardinality({ i \in 1..Len(a) : SubSeq(a, i, i) # SubSeq(b, i, i) }) = 1

\* C22: the verifier accepts exactly when the submitted signature equals the
\* hex HMAC-SHA256 of 'orderId|paymentId' under the server secret: the correct
\* signature is accepted, a signature one character apart from it is rejected,
\* nothing else is accepted, and verifying the same input again gives the same
\* result.
C22_SignatureVerifier ==
    /\ [](verified # "unverified" =>
            /\ verifyIn.body.razorpay_signature = CorrectFor(verifyIn)
                 => verified = "accepted"
            /\ OneCharacterApart(verifyIn.body.razorpay_signature, CorrectFor(verifyIn))
                 => verified = "rejected"
            /\ verified = "accepted"
                 => verifyIn.body.razorpay_signature = CorrectFor(verifyIn))
    /\ [][verified # "unverified" => verified' = verified]_vars

\* a signature one character apart from the correct one has been rejected
C22_Witness ==
    /\ verified = "rejected"
    /\ OneCharacterApart(verifyIn.body.razorpay_signature, CorrectFor(verifyIn))

----------------------------------------------------------------------------
(* 'Invalid payment signature' as a sign that Firebase Admin works *)

\* the requests served while Firebase Admin is not initialized
UninitializedRequests ==
    DOMAIN [ req \in { r \in VerifyRequests : r.apps = 0 } |-> TRUE ]

----------------------------------------------------------------------------
(* Firebase Admin initialization *)

\* C24: over the module loads and any sequence of getFirebaseAdmin, getDb,
\* getAuth and ensureFirebaseInitialized calls, admin.initializeApp has
\* succeeded at most once and at most one app exists, and a load or call made
\* when an app exists tries no initialization and leaves the apps as they are.
C24_InitializedOnce ==
    /\ [](initialized <= 1 /\ adminApps <= 1 /\ initialized = adminApps)
    /\ [][adminApps > 0 =>
            /\ adminApps' = adminApps /\ initialized' = initialized
            /\ lastCall'.tried = <<>> /\ lastCall'.succeeded = ""
         ]_vars

\* with the fallback variant, both instances loaded, one app, and a getDb that
\* returned without initializing anything
C24_Witness ==
    /\ deployment.lib = "fallback"
    /\ \A i \in Instances : modules[i].status = "loaded"
    /\ adminApps = 1 /\ initialized = 1
    /\ lastCall.fn = "getDb" /\ lastCall.outcome = "returned" /\ lastCall.tried = <<>>

Helpers == {"getFirebaseAdmin", "getDb", "getAuth"}

\* the methods in the order of the source
AllMethodsInOrder == <<"FIREBASE_CONFIG", "noParameters", "hardcodedProject">>

\* the sequence tried is a run of the methods in order, from FIREBASE_CONFIG
\* when it is set and from the call with no parameters otherwise
TriedInOrder(tried, config) ==
    \E a \in 1..2 :
       /\ a = 1 <=> config # "missing"
       /\ \E b \in a..3 : tried = SubSeq(AllMethodsInOrder, a, b)

\* C25: getFirebaseAdmin, getDb and getAuth return normally only in a state with
\* an initialized app; in the fallback variant a helper called on an instance
\* whose module-level initialization failed, while there is no app, tries the
\* methods in order (FIREBASE_CONFIG if it is set, no parameters, the
\* hard-coded project id): every method before the last one tried failed, and
\* the call either initializes with the last one tried and returns or, all
\* three having failed, throws and leaves no app.
C25_HelpersNeedApp ==
    /\ []((lastCall.fn \in Helpers /\ lastCall.outcome = "returned") => adminApps >= 1)
    /\ [][\A i \in Instances, ok \in Oks, fn \in Helpers :
            ( /\ HelperCall(fn, i, ok)
              /\ deployment.lib = "fallback"
              /\ ~modules[i].isFirebaseInitialized /\ adminApps = 0 )
            => LET tried == lastCall'.tried
                   config == deployment.FIREBASE_CONFIG IN
               /\ tried # <<>> /\ TriedInOrder(tried, config)
               /\ \A k \in 1..(Len(tried) - 1) : ~MethodWorks(tried[k], 0, config, ok)
               /\ IF MethodWorks(tried[Len(tried)], 0, config, ok)
                  THEN /\ lastCall'.succeeded = tried[Len(tried)]
                       /\ lastCall'.outcome = "returned"
                       /\ adminApps' = 1 /\ modules'[i].isFirebaseInitialized
                  ELSE /\ tried[Len(tried)] = "hardcodedProject"
                       /\ lastCall'.succeeded = ""
                       /\ lastCall'.outcome = "threw"
                       /\ adminApps' = 0 /\ ~modules'[i].isFirebaseInitialized
         ]_vars

\* FIREBASE_CONFIG is set but is not JSON and the call with no parameters was
\* refused: a helper's retry got the app with the hard-coded project id
C25_Witness ==
    /\ deployment = [lib |-> "fallback", FIREBASE_CONFIG |-> "malformed"]
    /\ lastCall.fn \in Helpers /\ lastCall.outcome = "returned"
    /\ lastCall.tried = AllMethodsInOrder /\ lastCall.succeeded = "hardcodedProject"
    /\ adminApps = 1

----------------------------------------------------------------------------
(* The generation form and the limit message *)

\* a dispatched action completes with a failure
FailureArrives == isPending /\ ~isPending' /\ ~state'.success

----------------------------------------------------------------------------
(* Failed generation requests and the store *)

\* C27: a generate-image response with success: false implies that its request
\* persisted no artifact record and did not change generationCount, also when
\* the failure is a store error of the counter increment.  A request is at
\* Incrementing only after its add of the artifact record was applied.
C27_FailedRequestWroteNothing ==
    [][\A r \in InFlightNow :
         (r.kind = "generate" /\ EndsFailed(r)) =>
            /\ users' = users /\ images' = images /\ charged' = charged
            /\ r.pc # "Incrementing"]_vars

\* C27 (amended): a generate-image response with success: false implies that
\* its request did not change generationCount, and that it persisted no
\* artifact record unless the failure is a store error of the counter
\* increment: then the record it added before the increment stays.
C27_FailedRequestKeptCount ==
    [][\A r \in InFlightNow :
         (r.kind = "generate" /\ EndsFailed(r)) =>
            /\ users' = users /\ images' = images /\ charged' = charged
            /\ r.pc = "Incrementing" =>
                 \E i \in 1..Len(images'[r.userId]) :
                     images'[r.userId][i] = ArtifactOf(r)]_vars

\* the only generation of u1 failed at the increment: no success and no
\* charge, the count as it was, and its artifact record in the collection
C27_Witness ==
    /\ lastResp.kind = "generate" /\ lastResp.userId = "u1" /\ ~lastResp.success
    /\ lastResp.status = 500
    /\ Len(images["u1"]) = 1 /\ expectedCount["u1"] = 0 /\ charged["u1"] = 0
    /\ users["u1"].exists /\ ~users["u1"].isSubscribed
    /\ InFlightNow = {}

----------------------------------------------------------------------------
(* The free limit without overlap *)

\* the generation requests of u have never overlapped in time
NeverOverlapped(u) == peakGen[u] <= 1

\* C30: as long as the generation requests of a never-subscribed user have not
\* overlapped in time, that user's generationCount does not exceed
\* FREE_GENERATION_LIMIT, whatever the number of requests and whatever the
\* gateway answered.
C30_SequentialWithinLimit ==
    \A u \in UserIds :
        (NeverOverlapped(u) /\ ~users[u].isSubscribed) =>
            users[u].generationCount <= FREE_GENERATION_LIMIT

\* u1 went from 4 to 5 by one generation, and the next one, started after it
\* had completed, was refused with the limit message
C30_Witness ==
    /\ NeverOverlapped("u1") /\ ~users["u1"].isSubscribed
    /\ users["u1"].generationCount = FREE_GENERATION_LIMIT
    /\ charged["u1"] = 1 /\ Len(images["u1"]) = 1
    /\ lastResp.kind = "generate" /\ lastResp.userId = "u1" /\ lastResp.status = 403

----------------------------------------------------------------------------
(* Several payments of one user *)

\* the order id and the payment id the record of u holds
StoredPayment(u) == <<users[u].razorpayOrderId, users[u].razorpayPaymentId>>

\* C28: after any interleaving of verify-payment requests carrying different
\* payments of one user, the order id and the payment id of the record are
\* those of one payment, never one of each; they change only in the step in
\* which a request is answered with success, and to the pair of that request.
C28_PaymentPairOfOneRequest ==
    /\ [](\A u \in UserIds :
            StoredPayment(u) \in Payments \cup {<<Undefined, Undefined>>})
    /\ [][\A u \in UserIds :
            StoredPayment(u)' # StoredPayment(u) =>
               \E r \in InFlightNow :
                  /\ r.kind = "verify" /\ r.userId = u /\ Ends(r)
                  /\ StoredPayment(u)' = <<r.orderId, r.paymentId>>
                  /\ lastResp'.kind = "verify" /\ lastResp'.success]_vars

\* the payment (o2, p2) of u1 was applied while a request carrying (o1, p1)
\* was in flight: the record holds (o2, p2) whole
C28_Witness ==
    /\ StoredPayment("u1") = <<"o2", "p2">>
    /\ users["u1"].upgradedAt = 2
    /\ lastResp.kind = "verify" /\ lastResp.success /\ ~lastResp.replay
    /\ \E r \in InFlightNow :
          r.kind = "verify" /\ r.userId = "u1" /\ r.orderId = "o1" /\ r.paymentId = "p1"

----------------------------------------------------------------------------
(* The server action and the route *)

\* the run x made the steps of the route's run, left the record and the
\* artifact collection as it did, and answered as it did
SameAsRoute(x) ==
    /\ ~x.threw
    /\ x.steps = byRoute.steps
    /\ x.doc = byRoute.doc /\ x.records = byRoute.records
    /\ x.success = byRoute.success
    /\ ~x.success => x.message = byRoute.message

\* C29: for the same prompt and userId, the same user record and the same
\* gateway answer, generateImageAction and POST of generate-image make the same
\* sequence of read, quota decision, gateway call, append and increment, leave
\* the store in the same state and agree on success and on the failure
\* message.  For the action that calls the route this is said of the calls
\* that reach it.
C29_ActionEquivalentToRoute ==
    /\ (byRoute.ran /\ byAction.ran) => SameAsRoute(byAction)
    /\ (byRoute.ran /\ byProxy.ran /\ ~call.fetchFails) => SameAsRoute(byProxy)

====
